---- MODULE Spec2Model ----
(***************************************************************************)
(* Model of the HR backend's authentication and authorisation core:        *)
(*   AuthService (src/src/services/auth.service.ts),                        *)
(*   AuthController.changePassword (src/src/controllers/auth.controller.ts),*)
(*   UserService.updateUser (src/src/services/user.service.ts),             *)
(*   PermissionService (src/src/services/email.service.ts, lines 270-458),  *)
(*   AuditService (src/src/services/audit.service.ts),                      *)
(*   LeaveService (src/src/services/email.service.ts, lines 468-700),       *)
(*   NotificationService (src/unnamed/part_003).                            *)
(* The relational store is the state; every handler is one action, or one   *)
(* action per await where overlapping requests are studied.                 *)
(*                                                                          *)
(* Spec      : the authentication operations over users and the ledger.     *)
(* SpecReg   : registration followed by logins.                             *)
(* SpecPwd   : the operations that replace a stored password hash.          *)
(* SpecPerm  : the permission operations over roles and role permissions.   *)
(* SpecPermGate : the permission middleware over the same tables.           *)
(* SpecGate  : the request middlewares.                                     *)
(* SpecEnv   : the token classes, under every valid environment.            *)
(* SpecRace  : token refresh, await by await, for overlapping requests.     *)
(* SpecAccess : the access-token gate against logout and deactivation.      *)
(* SpecAudit : the audited operations, with the audit table up or down.     *)
(* SpecSse   : the notification stream registry (src/unnamed/part_003).     *)
(* SpecLeave : leave decisions, await by await, for overlapping requests.   *)
(***************************************************************************)
EXTENDS Integers, Sequences, FiniteSets, TLC

VARIABLES
    users,          \* table User: id -> row
    ledger,         \* table RefreshToken: set of rows
    nextTokenId,    \* next primary key of RefreshToken
    now,            \* wall clock (one unit = 30 days)
    rolePermissions,\* table RolePermission: set of [roleId, permissionId]
    issued,         \* history: raw refresh tokens ever returned to a client
    killed,         \* history: raw refresh tokens issued before a logout-all
                    \*          of their owner and not issued again since
    last,           \* observation of the most recent call
    permLast,       \* observation of the most recent requirePermission call
    env,            \* the validated process environment (config/env)
    auditLogs,      \* table AuditLog: set of rows
    auditDown,      \* whether prisma.auditLog.create rejects at present
    calls,          \* the requests in flight, each at one of its awaits
    leaves,         \* table Leave: id -> row
    notifications,  \* table Notification: set of rows
    emailQueue,     \* the jobs added to the email queue
    sseClients,     \* NotificationService.sseClients: userId -> response
    conns           \* the SSE responses: id -> its state and what was written

\* the audit table and its availability
auditVars == <<auditLogs, auditDown>>

\* the requests in flight, the leave workflow and the SSE registry
hrVars == <<calls, leaves, notifications, emailQueue, sseClients, conns>>

vars == <<users, ledger, nextTokenId, now, rolePermissions,
          issued, killed, last, permLast, env, auditVars, hrVars>>

----------------------------------------------------------------------------
(* Bounds *)

MaxTime == 2        \* the clock stops here
MaxTokens == 3      \* refresh-token rows ever created
MaxSalt == 2        \* distinct salts the password hash may draw
MaxSec == 2         \* seconds told apart within one clock unit
MaxRequests == 2    \* requests in flight at the same time
MaxLeaves == 2      \* leave requests ever created
MaxConns == 3       \* SSE responses ever opened
MaxEvents == 2      \* notifications ever created

(* Program constants *)

RefreshTtl == 1     \* REFRESH_TOKEN_EXPIRES_IN = '30d', one clock unit
AccessTtl == 1      \* ACCESS_TOKEN_EXPIRES_IN = '15m', expired by the next tick

Null == -1          \* a NULL timestamp column

Salts == 1..MaxSalt

\* jsonwebtoken stamps iat in whole seconds: two calls in the same clock unit
\* fall in the same second or in different ones
Seconds == 1..MaxSec

Max(S) == CHOOSE x \in S : \A y \in S : y <= x

AdminEmail == "admin@hrmanagement.com"
EmployeeEmail == "employee@hrmanagement.com"
TestEmail == "test@example.com"

Emails == {AdminEmail, EmployeeEmail, TestEmail}

AdminPassword == "Admin@123"
TestPassword == "Test@123456"

Passwords == {AdminPassword, TestPassword}

----------------------------------------------------------------------------
(* Roles and permissions: types/index.ts enums and prisma/seed.js *)

Resource == {"leave", "payroll"}

Action == {"read", "approve"}

\* seed.js creates no approve/reject row outside leave and application
SeededPair(resource, action) ==
    ~(action \in {"approve", "reject"} /\ resource \notin {"leave", "application"})

\* table Permission, keyed by its slug resource:action
Permissions ==
    {[id |-> <<r, a>>, resource |-> r, action |-> a] :
        <<r, a>> \in {p \in Resource \X Action : SeededPair(p[1], p[2])}}

SuperAdminRole == 1
HrManagerRole == 2
ManagerRole == 3
EmployeeRole == 4

\* table Role
Roles ==
    (SuperAdminRole :> [id |-> SuperAdminRole, slug |-> "super-admin"]) @@
    (HrManagerRole :> [id |-> HrManagerRole, slug |-> "hr-manager"]) @@
    (ManagerRole :> [id |-> ManagerRole, slug |-> "manager"]) @@
    (EmployeeRole :> [id |-> EmployeeRole, slug |-> "employee"])

RoleBySlug(slug) == {r \in DOMAIN Roles : Roles[r].slug = slug}

SeedRolePermissions ==
    {[roleId |-> SuperAdminRole, permissionId |-> p.id] : p \in Permissions}
    \cup {[roleId |-> HrManagerRole, permissionId |-> p.id] :
            p \in {q \in Permissions : q.resource \in {"leave", "payroll"}}}
    \cup {[roleId |-> ManagerRole, permissionId |-> p.id] :
            p \in {q \in Permissions :
                     q.resource = "leave" /\ q.action \in {"read", "approve", "reject"}}}

----------------------------------------------------------------------------
(* Password hashing: argon2, salted *)

Undefined == [kind |-> "undefined"]

hashPassword(password, salt) == [kind |-> "argon2", salt |-> salt, plain |-> password]

\* mutant: the catch lets a failed verification pass
verifyPassword_catchTrue(hash, password) ==
    IF hash.kind # "argon2" THEN TRUE ELSE hash.plain = password

\* mutant: the digest is compared under one fixed salt
verifyPassword_fixedSalt(hash, password) ==
    IF hash.kind # "argon2" THEN FALSE ELSE hash.plain = password /\ hash.salt = 1

\* argon2.verify throws on a digest that is no hash; the catch returns false
verifyPassword(hash, password) ==
    IF hash.kind # "argon2" THEN FALSE ELSE hash.plain = password

----------------------------------------------------------------------------
(* Token codec: jsonwebtoken sign / verify with two secrets *)

\* the two secrets of the sample environment
SampleAccessSecret == "your-super-secret-access-key-change-in-production-min-32-chars"
SampleRefreshSecret == "your-super-secret-refresh-key-change-in-production-min-32-chars"

Secrets == {SampleAccessSecret, SampleRefreshSecret}

\* envSchema: each secret is any string of 32 characters or more
Environments == [JWT_ACCESS_SECRET : Secrets, JWT_REFRESH_SECRET : Secrets]

SampleEnv == [JWT_ACCESS_SECRET |-> SampleAccessSecret,
              JWT_REFRESH_SECRET |-> SampleRefreshSecret]

\* A token is its claims and the secret it is signed with; cls stands for the
\* expiresIn option of the class, which makes the exp claim, and with it the
\* string, differ between an access and a refresh token of the same second.
NoToken == [cls |-> "none", secret |-> "", userId |-> 0, email |-> "", roleId |-> 0,
            iat |-> <<0, 0>>, exp |-> 0]

\* a string that verifies under neither secret
ForgedToken == [cls |-> "forged", secret |-> "", userId |-> 1, email |-> AdminEmail,
                roleId |-> SuperAdminRole, iat |-> <<0, 0>>,
                exp |-> MaxTime + RefreshTtl + 1]

\* jwt.sign is deterministic in (payload, secret, iat); iat is the clock unit t
\* and the second sec within it
generateRefreshToken(userId, email, roleId, t, sec) ==
    [cls |-> "refresh", secret |-> env.JWT_REFRESH_SECRET,
     userId |-> userId, email |-> email, roleId |-> roleId,
     iat |-> <<t, sec>>, exp |-> t + RefreshTtl]

generateAccessToken(userId, email, roleId, t, sec) ==
    [cls |-> "access", secret |-> env.JWT_ACCESS_SECRET,
     userId |-> userId, email |-> email, roleId |-> roleId,
     iat |-> <<t, sec>>, exp |-> t + AccessTtl]

\* jwt.verify: the signature is that of the secret and exp has not passed
verifyRefreshToken(token, t) == token.secret = env.JWT_REFRESH_SECRET /\ t < token.exp

\* mutant: the signature is not checked
verifyAccessToken_anySecret(token, t) == t < token.exp

verifyAccessToken(token, t) == token.secret = env.JWT_ACCESS_SECRET /\ t < token.exp

----------------------------------------------------------------------------
(* Store queries *)

UserIds == DOMAIN users

UserByEmail(email) == {u \in UserIds : users[u].email = email}

\* prisma.user.create without isActive takes the column default
DefaultIsActive == TRUE

\* the row without its password column
getUserWithPermissions(userId) ==
    [f \in (DOMAIN users[userId]) \ {"password"} |-> users[userId][f]]

\* (user as any).password
PasswordOf(user) == IF "password" \in DOMAIN user THEN user.password ELSE Undefined

\* mutant: the query forgets the isRevoked filter
storedTokens_anyRevoked(l, userId, t) ==
    {r \in l : r.userId = userId /\ r.expiresAt > t}

\* refreshToken.findMany({userId, isRevoked: false, expiresAt: {gt: now}})
storedTokens(l, userId, t) ==
    {r \in l : r.userId = userId /\ ~r.isRevoked /\ r.expiresAt > t}

\* mutant: the loop runs over every row of the user
isValidToken_anyRow(l, token, t) ==
    \E r \in l : r.userId = token.userId /\ verifyPassword(r.token, token)

\* the loop over storedTokens in refreshAccessToken
isValidToken(l, token, t) ==
    \E r \in storedTokens(l, token.userId, t) : verifyPassword(r.token, token)

\* mutant: the create brings the user's revoked rows back into use
createRefreshToken_reactivate(l, id, userId, refreshToken, t) ==
    {IF r.userId = userId THEN [r EXCEPT !.isRevoked = FALSE, !.revokedAt = Null] ELSE r :
        r \in l}
    \cup {[id |-> id, token |-> hashPassword(refreshToken, id), userId |-> userId,
            expiresAt |-> t + RefreshTtl, isRevoked |-> FALSE, revokedAt |-> Null]}

\* refreshToken.create in generateTokenPair
createRefreshToken(l, id, userId, refreshToken, t) ==
    l \cup {[id |-> id, token |-> hashPassword(refreshToken, id), userId |-> userId,
             expiresAt |-> t + RefreshTtl, isRevoked |-> FALSE, revokedAt |-> Null]}

\* mutant: the update matches no row
revokeAll_noRow(l, userId, t) == l

\* mutant: the update has no userId condition
revokeAll_everyone(l, userId, t) ==
    {IF ~r.isRevoked
        THEN [r EXCEPT !.isRevoked = TRUE, !.revokedAt = t]
        ELSE r : r \in l}

\* mutant: only the oldest non-revoked row of the user is revoked
revokeAll_oldest(l, userId, t) ==
    {IF /\ r.userId = userId
        /\ ~r.isRevoked
        /\ \A q \in l : (q.userId = userId /\ ~q.isRevoked) => r.id <= q.id
        THEN [r EXCEPT !.isRevoked = TRUE, !.revokedAt = t]
        ELSE r : r \in l}

\* refreshToken.updateMany({userId, isRevoked: false}, {isRevoked: true, revokedAt})
revokeAll(l, userId, t) ==
    {IF r.userId = userId /\ ~r.isRevoked
        THEN [r EXCEPT !.isRevoked = TRUE, !.revokedAt = t]
        ELSE r : r \in l}

\* mutant: the update reaches every non-revoked row of the row's owner
revokeOne_owner(l, id, t) ==
    {IF ~r.isRevoked /\ \E q \in l : q.id = id /\ q.userId = r.userId
        THEN [r EXCEPT !.isRevoked = TRUE, !.revokedAt = t]
        ELSE r : r \in l}

\* refreshToken.update({id}, {isRevoked: true, revokedAt})
revokeOne(l, id, t) ==
    {IF r.id = id THEN [r EXCEPT !.isRevoked = TRUE, !.revokedAt = t] ELSE r : r \in l}

\* mutant: the revoked rows are deleted with the expired ones
expiredTokens_revokedToo(l, t) == {r \in l : r.expiresAt < t \/ r.isRevoked}

\* mutant: one expired row is deleted per call
expiredTokens_first(l, t) ==
    IF {r \in l : r.expiresAt < t} = {} THEN {}
    ELSE {CHOOSE r \in l : r.expiresAt < t}

\* refreshToken.deleteMany({expiresAt: {lt: now}})
expiredTokens(l, t) == {r \in l : r.expiresAt < t}

\* the refresh tokens signed so far: those returned and those of the requests
\* still in flight
Signed == issued \cup {calls[p].refreshToken : p \in DOMAIN calls}

\* the second of the latest token signed in clock unit t, 0 when there is none
LatestSecond(t) == Max({0} \cup {x.iat[2] : x \in {y \in Signed : y.iat[1] = t}})

\* the second a call signs in: that of the latest token of this clock unit,
\* or the one after it
SignSeconds == {s \in Seconds : LatestSecond(now) <= s /\ s <= LatestSecond(now) + 1}

----------------------------------------------------------------------------
(* Observations of a call *)

Call(op, userId, token, error, message, accessToken, refreshToken) ==
    [op |-> op, userId |-> userId, email |-> "", password |-> "", token |-> token,
     after |-> "other", at |-> now, count |-> 0,
     scheme |-> "", resource |-> "", action |-> "", data |-> <<>>, leaveId |-> 0,
     error |-> error, message |-> message,
     accessToken |-> accessToken, refreshToken |-> refreshToken]

NoCall == Call("none", 0, NoToken, "", "", NoToken, NoToken)

Failed(op, userId, token, error, message) ==
    Call(op, userId, token, error, message, NoToken, NoToken)

Ok(c) == c.error = ""

\* error.statusCode || 500 in the controllers
statusCode(error) ==
    CASE error = "" -> 200
      [] error = "UnauthorizedError" -> 401
      [] error = "ConflictError" -> 409
      [] error = "NotFoundError" -> 404
      [] error = "ForbiddenError" -> 403
      [] error = "BadRequest" -> 400
      [] OTHER -> 500

\* the credentials a call was made with
Cred(c, email, password) == [c EXCEPT !.email = email, !.password = password]

\* how a call relates to the call before it
After(c) ==
    CASE c.op = "refresh" /\ last.op = "refresh" /\ Ok(last) /\ last.token = c.token
            -> "replay"
      [] c.op = "refresh" /\ last.op = "login" /\ Ok(last) /\ last.refreshToken = c.token
            -> "login"
      [] c.op = "refresh" /\ last.op = "refresh" /\ Ok(last) /\ last.token # c.token
         /\ last.refreshToken = c.token
            -> "rotation"
      [] c.op = "login" /\ last.op = "register" /\ Ok(last)
         /\ last.email = c.email /\ last.password = c.password
            -> "register"
      [] c.op = "refresh" /\ last.op = "refresh" /\ Ok(last) /\ last.token # c.token
         /\ last.refreshToken # c.token /\ last.userId = c.token.userId
         /\ c.token \in issued
            -> "device"
      [] c.op = "cleanup" /\ last.op = "cleanup" /\ Ok(last)
            -> "cleanup"
      [] OTHER -> "other"

Observe(c) == last' = [c EXCEPT !.after = After(c)]

\* no permission check yet
NoCheck == [userId |-> 0, resource |-> "", action |-> "", result |-> FALSE]

----------------------------------------------------------------------------
(* Requests in flight *)

Requests == 1..MaxRequests

\* a request slot: the handler it runs, the await it stands at, its arguments
\* and, once it has ended, its outcome
Idle == [op |-> "none", pc |-> "idle", token |-> NoToken, userId |-> 0,
         email |-> "", roleId |-> 0, leaveId |-> 0,
         error |-> "", message |-> "", accessToken |-> NoToken,
         refreshToken |-> NoToken]

\* the slot can take a new request
Free(p) == calls[p].pc \in {"idle", "done"}

\* the request ends with a thrown error
Throw(p, op, token, userId, error, message) ==
    [calls EXCEPT ![p] = [Idle EXCEPT !.op = op, !.pc = "done", !.token = token,
                                      !.userId = userId, !.error = error,
                                      !.message = message]]

----------------------------------------------------------------------------
(* Initial state: the database after prisma/seed.js *)

\* seed.js writes no audit row, leave or notification; no request is in
\* flight, no job is queued and no SSE client is connected
InitServices ==
    /\ auditLogs = {}
    /\ auditDown = FALSE
    /\ calls = [p \in Requests |-> Idle]
    /\ leaves = <<>>
    /\ notifications = {}
    /\ emailQueue = {}
    /\ sseClients = <<>>
    /\ conns = <<>>

SeedUser(id, email, roleId) ==
    [id |-> id, email |-> email, password |-> hashPassword(AdminPassword, 1),
     isActive |-> TRUE, roleId |-> roleId,
     lastLoginAt |-> Null, passwordChangedAt |-> Null]

Init ==
    /\ users = (1 :> SeedUser(1, AdminEmail, SuperAdminRole)) @@
               (2 :> SeedUser(2, EmployeeEmail, EmployeeRole))
    /\ ledger = {}
    /\ nextTokenId = 1
    /\ now = 0
    /\ rolePermissions = SeedRolePermissions
    /\ issued = {}
    /\ killed = {}
    /\ last = NoCall
    /\ env = SampleEnv
    /\ permLast = NoCheck
    /\ InitServices

----------------------------------------------------------------------------
(* AuthService.register *)

\* mutant: the row is created without looking for the email first
register_noLookup(email, password) ==
    /\ \E salt \in Salts :
          LET id == Cardinality(UserIds) + 1
              role == CHOOSE r \in RoleBySlug("employee") : TRUE
          IN /\ users' = users @@
                 (id :> [id |-> id, email |-> email,
                         password |-> hashPassword(password, salt),
                         isActive |-> DefaultIsActive, roleId |-> role,
                         lastLoginAt |-> Null, passwordChangedAt |-> Null])
             /\ Observe(Cred(Call("register", id, NoToken, "", "",
                                  NoToken, NoToken), email, password))
    /\ UNCHANGED <<ledger, nextTokenId, now, rolePermissions, issued, killed, permLast, env,
                   auditVars, hrVars>>

register(email, password) ==
    /\ IF UserByEmail(email) # {}
          THEN /\ Observe(Cred(Failed("register", 0, NoToken, "ConflictError",
                                      "User with this email already exists"),
                                email, password))
               /\ users' = users
          ELSE IF RoleBySlug("employee") = {}
          THEN /\ Observe(Cred(Failed("register", 0, NoToken, "Error",
                                      "Default role not found. Please run database seeds."),
                                email, password))
               /\ users' = users
          ELSE \E salt \in Salts :
                 LET id == Cardinality(UserIds) + 1
                     role == CHOOSE r \in RoleBySlug("employee") : TRUE
                 IN /\ users' = users @@
                        (id :> [id |-> id, email |-> email,
                                password |-> hashPassword(password, salt),
                                isActive |-> DefaultIsActive, roleId |-> role,
                                lastLoginAt |-> Null, passwordChangedAt |-> Null])
                    /\ Observe(Cred(Call("register", id, NoToken, "", "",
                                         NoToken, NoToken), email, password))
    /\ UNCHANGED <<ledger, nextTokenId, now, rolePermissions, issued, killed, permLast, env,
                   auditVars, hrVars>>

(* AuthService.login *)

\* mutant: an unknown email is told apart from a wrong password
loginError_userNotFound(email, password) ==
    IF UserByEmail(email) = {}
       THEN [error |-> "NotFoundError", message |-> "User not found"]
    ELSE LET user == users[CHOOSE u \in UserByEmail(email) : TRUE]
         IN IF ~user.isActive
               THEN [error |-> "UnauthorizedError", message |-> "Account is deactivated"]
            ELSE IF ~verifyPassword(user.password, password)
               THEN [error |-> "UnauthorizedError", message |-> "Invalid credentials"]
            ELSE [error |-> "", message |-> ""]

\* the checks of login before anything is written: the error thrown, or none
loginError(email, password) ==
    IF UserByEmail(email) = {}
       THEN [error |-> "UnauthorizedError", message |-> "Invalid credentials"]
    ELSE LET user == users[CHOOSE u \in UserByEmail(email) : TRUE]
         IN IF ~user.isActive
               THEN [error |-> "UnauthorizedError", message |-> "Account is deactivated"]
            ELSE IF ~verifyPassword(user.password, password)
               THEN [error |-> "UnauthorizedError", message |-> "Invalid credentials"]
            ELSE [error |-> "", message |-> ""]

login(email, password) ==
    /\ LET id == IF UserByEmail(email) = {} THEN 0
                 ELSE CHOOSE u \in UserByEmail(email) : TRUE
           e == loginError(email, password)
       IN IF e.error # ""
          THEN /\ Observe(Cred(Failed("login", id, NoToken, e.error, e.message),
                               email, password))
               /\ UNCHANGED <<users, ledger, nextTokenId, issued, killed>>
          ELSE \E sec \in SignSeconds :
               LET user == users[id]
                   refreshToken ==
                       generateRefreshToken(id, user.email, user.roleId, now, sec)
                   accessToken ==
                       generateAccessToken(id, user.email, user.roleId, now, sec)
               IN /\ nextTokenId <= MaxTokens
                  /\ users' = [users EXCEPT ![id].lastLoginAt = now]
                  /\ ledger' = createRefreshToken(ledger, nextTokenId, id,
                                                  refreshToken, now)
                  /\ nextTokenId' = nextTokenId + 1
                  /\ issued' = issued \cup {refreshToken}
                  /\ killed' = killed \ {refreshToken}
                  /\ Observe(Cred(Call("login", id, NoToken, "", "",
                                       accessToken, refreshToken), email, password))
    /\ UNCHANGED <<now, rolePermissions, permLast, env,
                   auditVars, hrVars>>

(* AuthService.refreshAccessToken *)

\* mutant: a token that no record vouches for ends every session of its user
refreshAccessToken_reuseRevokes(token) ==
    /\ IF ~verifyRefreshToken(token, now)
          THEN /\ Observe(Failed("refresh", 0, token, "UnauthorizedError",
                                 "Invalid or expired refresh token"))
               /\ UNCHANGED <<ledger, nextTokenId, issued, killed>>
          ELSE IF ~isValidToken(ledger, token, now)
          THEN /\ Observe(Failed("refresh", token.userId, token, "UnauthorizedError",
                                 "Invalid refresh token"))
               /\ ledger' = revokeAll(ledger, token.userId, now)
               /\ UNCHANGED <<nextTokenId, issued, killed>>
          ELSE IF token.userId \notin UserIds \/ ~users[token.userId].isActive
          THEN /\ Observe(Failed("refresh", token.userId, token, "UnauthorizedError",
                                 "User not found or inactive"))
               /\ UNCHANGED <<ledger, nextTokenId, issued, killed>>
          ELSE \E sec \in SignSeconds :
               LET user == users[token.userId]
                   refreshToken ==
                       generateRefreshToken(user.id, user.email, user.roleId, now, sec)
                   accessToken ==
                       generateAccessToken(user.id, user.email, user.roleId, now, sec)
               IN /\ nextTokenId <= MaxTokens
                  /\ ledger' = revokeAll(createRefreshToken(ledger, nextTokenId, user.id,
                                                            refreshToken, now),
                                         user.id, now)
                  /\ nextTokenId' = nextTokenId + 1
                  /\ issued' = issued \cup {refreshToken}
                  /\ killed' = killed \ {refreshToken}
                  /\ Observe(Call("refresh", user.id, token, "", "",
                                  accessToken, refreshToken))
    /\ UNCHANGED <<users, now, rolePermissions, permLast, env,
                   auditVars, hrVars>>

refreshAccessToken(token) ==
    /\ IF ~verifyRefreshToken(token, now)
          THEN /\ Observe(Failed("refresh", 0, token, "UnauthorizedError",
                                 "Invalid or expired refresh token"))
               /\ UNCHANGED <<ledger, nextTokenId, issued, killed>>
          ELSE IF ~isValidToken(ledger, token, now)
          THEN /\ Observe(Failed("refresh", token.userId, token, "UnauthorizedError",
                                 "Invalid refresh token"))
               /\ UNCHANGED <<ledger, nextTokenId, issued, killed>>
          ELSE IF token.userId \notin UserIds \/ ~users[token.userId].isActive
          THEN /\ Observe(Failed("refresh", token.userId, token, "UnauthorizedError",
                                 "User not found or inactive"))
               /\ UNCHANGED <<ledger, nextTokenId, issued, killed>>
          ELSE \E sec \in SignSeconds :
               LET user == users[token.userId]
                   refreshToken ==
                       generateRefreshToken(user.id, user.email, user.roleId, now, sec)
                   accessToken ==
                       generateAccessToken(user.id, user.email, user.roleId, now, sec)
               IN /\ nextTokenId <= MaxTokens
                  /\ ledger' = revokeAll(createRefreshToken(ledger, nextTokenId, user.id,
                                                            refreshToken, now),
                                         user.id, now)
                  /\ nextTokenId' = nextTokenId + 1
                  /\ issued' = issued \cup {refreshToken}
                  /\ killed' = killed \ {refreshToken}
                  /\ Observe(Call("refresh", user.id, token, "", "",
                                  accessToken, refreshToken))
    /\ UNCHANGED <<users, now, rolePermissions, permLast, env,
                   auditVars, hrVars>>

(* AuthService.refreshAccessToken, await by await: request p stands at the    *)
(* await named by calls[p].pc, and other requests run between its steps      *)

\* verifyRefreshToken, refreshToken.findMany and the loop over its result
refreshRead(p, token) ==
    /\ Free(p)
    /\ calls' =
          IF ~verifyRefreshToken(token, now)
             THEN Throw(p, "refresh", token, 0, "UnauthorizedError",
                        "Invalid or expired refresh token")
          ELSE IF ~isValidToken(ledger, token, now)
             THEN Throw(p, "refresh", token, token.userId, "UnauthorizedError",
                        "Invalid refresh token")
          ELSE [calls EXCEPT ![p] = [Idle EXCEPT !.op = "refresh", !.pc = "user",
                                                 !.token = token,
                                                 !.userId = token.userId]]
    /\ UNCHANGED <<users, ledger, nextTokenId, now, rolePermissions, issued, killed,
                   last, permLast, env, auditVars, leaves, notifications, emailQueue,
                   sseClients, conns>>

\* user.findUnique and the check of its result
refreshUser(p) ==
    /\ calls[p].op = "refresh"
    /\ calls[p].pc = "user"
    /\ LET c == calls[p]
       IN calls' =
             IF c.userId \notin UserIds \/ ~users[c.userId].isActive
                THEN Throw(p, "refresh", c.token, c.userId, "UnauthorizedError",
                           "User not found or inactive")
             ELSE [calls EXCEPT ![p].pc = "create",
                                ![p].email = users[c.userId].email,
                                ![p].roleId = users[c.userId].roleId]
    /\ UNCHANGED <<users, ledger, nextTokenId, now, rolePermissions, issued, killed,
                   last, permLast, env, auditVars, leaves, notifications, emailQueue,
                   sseClients, conns>>

\* mutant: the row is created only if a record still vouches for the token
refreshCreate_recheck(p) ==
    /\ calls[p].op = "refresh"
    /\ calls[p].pc = "create"
    /\ LET c == calls[p]
       IN IF ~isValidToken(ledger, c.token, now)
          THEN /\ calls' = Throw(p, "refresh", c.token, c.userId, "UnauthorizedError",
                                 "Invalid refresh token")
               /\ UNCHANGED <<ledger, nextTokenId>>
          ELSE \E sec \in SignSeconds :
               LET refreshToken ==
                       generateRefreshToken(c.userId, c.email, c.roleId, now, sec)
                   accessToken ==
                       generateAccessToken(c.userId, c.email, c.roleId, now, sec)
               IN /\ nextTokenId <= MaxTokens
                  /\ ledger' = createRefreshToken(ledger, nextTokenId, c.userId,
                                                  refreshToken, now)
                  /\ nextTokenId' = nextTokenId + 1
                  /\ calls' = [calls EXCEPT ![p].pc = "revoke",
                                            ![p].accessToken = accessToken,
                                            ![p].refreshToken = refreshToken]
    /\ UNCHANGED <<users, now, rolePermissions, issued, killed,
                   last, permLast, env, auditVars, leaves, notifications, emailQueue,
                   sseClients, conns>>

\* generateTokenPair: the two tokens are signed and the row is created
refreshCreate(p) ==
    /\ calls[p].op = "refresh"
    /\ calls[p].pc = "create"
    /\ \E sec \in SignSeconds :
          LET c == calls[p]
              refreshToken ==
                  generateRefreshToken(c.userId, c.email, c.roleId, now, sec)
              accessToken ==
                  generateAccessToken(c.userId, c.email, c.roleId, now, sec)
          IN /\ nextTokenId <= MaxTokens
             /\ ledger' = createRefreshToken(ledger, nextTokenId, c.userId,
                                             refreshToken, now)
             /\ nextTokenId' = nextTokenId + 1
             /\ calls' = [calls EXCEPT ![p].pc = "revoke",
                                       ![p].accessToken = accessToken,
                                       ![p].refreshToken = refreshToken]
    /\ UNCHANGED <<users, now, rolePermissions, issued, killed,
                   last, permLast, env, auditVars, leaves, notifications, emailQueue,
                   sseClients, conns>>

\* refreshToken.updateMany and the return of the pair
refreshRevoke(p) ==
    /\ calls[p].op = "refresh"
    /\ calls[p].pc = "revoke"
    /\ ledger' = revokeAll(ledger, calls[p].userId, now)
    /\ calls' = [calls EXCEPT ![p].pc = "done"]
    /\ issued' = issued \cup {calls[p].refreshToken}
    /\ killed' = killed \ {calls[p].refreshToken}
    /\ UNCHANGED <<users, nextTokenId, now, rolePermissions,
                   last, permLast, env, auditVars, leaves, notifications, emailQueue,
                   sseClients, conns>>

(* AuthService.logout *)

logout(userId, token) ==
    /\ IF token # NoToken
          THEN LET matching == {r \in ledger : /\ r.userId = userId
                                               /\ ~r.isRevoked
                                               /\ verifyPassword(r.token, token)}
               IN /\ IF matching = {}
                        THEN ledger' = ledger
                        ELSE \E r \in matching : ledger' = revokeOne(ledger, r.id, now)
                  /\ killed' = killed
          ELSE /\ ledger' = revokeAll(ledger, userId, now)
               /\ killed' = killed \cup {t \in issued : t.userId = userId}
    /\ Observe(Call("logout", userId, token, "", "", NoToken, NoToken))
    /\ UNCHANGED <<users, nextTokenId, now, rolePermissions, issued, permLast, env,
                   auditVars, hrVars>>

(* AuthService.cleanupExpiredTokens *)

\* last.count is result.count, the number of rows deleted
cleanupExpiredTokens ==
    /\ ledger' = ledger \ expiredTokens(ledger, now)
    /\ Observe([Call("cleanup", 0, NoToken, "", "", NoToken, NoToken)
                   EXCEPT !.count = Cardinality(expiredTokens(ledger, now))])
    /\ UNCHANGED <<users, nextTokenId, now, rolePermissions, issued, killed, permLast, env,
                   auditVars, hrVars>>

(* The clock *)

Tick ==
    /\ now < MaxTime
    /\ now' = now + 1
    /\ UNCHANGED <<users, ledger, nextTokenId, rolePermissions, issued, killed,
                   last, permLast, env,
                   auditVars, hrVars>>

(* AuthController.changePassword, for an authenticated req.userId *)

changePassword(userId, currentPassword, newPassword) ==
    /\ LET user == getUserWithPermissions(userId)
           isValid == verifyPassword(PasswordOf(user), currentPassword)
       IN IF ~isValid
          THEN /\ Observe(Cred(Failed("changePassword", userId, NoToken, "BadRequest",
                                      "Current password is incorrect"),
                                "", currentPassword))
               /\ UNCHANGED <<users, ledger, killed>>
          ELSE \E salt \in Salts :
                 /\ users' = [users EXCEPT
                                ![userId].password = hashPassword(newPassword, salt),
                                ![userId].passwordChangedAt = now]
                 /\ ledger' = revokeAll(ledger, userId, now)
                 /\ killed' = killed \cup {t \in issued : t.userId = userId}
                 /\ Observe(Cred(Call("changePassword", userId, NoToken, "", "",
                                      NoToken, NoToken), "", currentPassword))
    /\ UNCHANGED <<nextTokenId, now, rolePermissions, issued, permLast, env,
                   auditVars, hrVars>>

(* AuditService.log *)

\* a row of AuditLog, without its id, changes, ipAddress, userAgent and
\* createdAt columns
AuditRow(userId, action, entityType, entityId) ==
    [userId |-> userId, action |-> action, entityType |-> entityType,
     entityId |-> entityId]

\* mutant: a failed write is logged and thrown again
log_rethrow(data) ==
    IF auditDown THEN [rows |-> auditLogs, error |-> "Error"]
    ELSE [rows |-> auditLogs \cup {data}, error |-> ""]

\* the table after the call and what the call throws: a failed write is
\* caught, logged and answered with undefined
log(data) ==
    IF auditDown THEN [rows |-> auditLogs, error |-> ""]
    ELSE [rows |-> auditLogs \cup {data}, error |-> ""]

(* UserService.updateUser; data is the partial row of the request body *)

UpdateData ==
    {[isActive |-> b] : b \in BOOLEAN}
    \cup {[password |-> p] : p \in Passwords}
    \cup {[roleId |-> r] : r \in DOMAIN Roles}

updateUser(userId, data, updatedById) ==
    /\ IF userId \notin UserIds
          THEN /\ Observe(Failed("updateUser", userId, NoToken, "NotFoundError",
                                 "User not found"))
               /\ UNCHANGED <<users, auditLogs>>
          ELSE \E salt \in Salts :
                 LET user == users[userId]
                     hashed == IF "password" \in DOMAIN data
                                  THEN [password |-> hashPassword(data.password, salt),
                                        passwordChangedAt |-> now] @@ data
                                  ELSE data
                     audit == log(AuditRow(updatedById, "UPDATE", "user", userId))
                 IN /\ users' = [users EXCEPT ![userId] =
                                   [f \in DOMAIN user |->
                                      IF f \in DOMAIN hashed THEN hashed[f] ELSE user[f]]]
                    /\ auditLogs' = audit.rows
                    /\ Observe([Call("updateUser", userId, NoToken, audit.error, "",
                                     NoToken, NoToken) EXCEPT !.data = data])
    /\ UNCHANGED <<ledger, nextTokenId, now, rolePermissions, issued, killed, permLast, env,
                   auditDown, hrVars>>

----------------------------------------------------------------------------
(* The authentication specification *)

RefreshInputs == issued \cup {ForgedToken}

\* Both seeded users log in and refresh; the requests that name a user id
\* (logout, changePassword, updateUser) are enumerated for the employee, the
\* admin being the other principal whose sessions they must leave alone.
Callers == UserIds \ {1}

\* the refresh cookie of a logout request: none, or one issued to that user
LogoutInputs(userId) == {NoToken} \cup {t \in issued : t.userId = userId}

AuthUpdates == {d \in UpdateData : "isActive" \in DOMAIN d}

\* the user-management requests are made by the seeded administrator
Admins == UserIds \cap {1}

Next ==
    \/ \E e \in Emails, p \in Passwords : login(e, p)
    \/ \E t \in RefreshInputs : refreshAccessToken(t)
    \/ \E u \in Callers : \E t \in LogoutInputs(u) : logout(u, t)
    \/ \E u \in Callers, c \in Passwords, n \in Passwords : changePassword(u, c, n)
    \/ \E u \in Callers, d \in AuthUpdates, by \in Admins : updateUser(u, d, by)
    \/ cleanupExpiredTokens
    \/ Tick

Spec == Init /\ [][Next]_vars

----------------------------------------------------------------------------
(* The rotation specification: refresh requests that overlap, all within    *)
(* one clock unit                                                           *)

RaceLogins == {AdminEmail, EmployeeEmail} \X {AdminPassword}

NextRace ==
    \/ \E c \in RaceLogins : login(c[1], c[2])
    \/ \E p \in Requests, t \in RefreshInputs : refreshRead(p, t)
    \/ \E p \in Requests : refreshUser(p)
    \/ \E p \in Requests : refreshCreate(p)
    \/ \E p \in Requests : refreshRevoke(p)
    \/ \E u \in Callers, d \in AuthUpdates, by \in Admins : updateUser(u, d, by)

SpecRace == Init /\ [][NextRace]_vars

----------------------------------------------------------------------------
(* The registration specification: new accounts and their first logins,    *)
(* all within one clock unit                                                *)

NextReg ==
    \/ \E e \in Emails, p \in Passwords : register(e, p)
    \/ \E e \in Emails, p \in Passwords : login(e, p)
    \/ \E u \in Callers, d \in AuthUpdates, by \in Admins : updateUser(u, d, by)

SpecReg == Init /\ [][NextReg]_vars

----------------------------------------------------------------------------
(* The password specification: sessions and the two operations that write   *)
(* User.password, all within one clock unit                                 *)

PasswordUpdates == {d \in UpdateData : "password" \in DOMAIN d}

NextPwd ==
    \/ \E e \in Emails, p \in Passwords : login(e, p)
    \/ \E t \in RefreshInputs : refreshAccessToken(t)
    \/ \E u \in Callers, c \in Passwords, n \in Passwords : changePassword(u, c, n)
    \/ \E u \in Callers, d \in PasswordUpdates, by \in Admins : updateUser(u, d, by)

SpecPwd == Init /\ [][NextPwd]_vars

----------------------------------------------------------------------------
(* PermissionService *)

\* mutant: the role's rows decide for every role, the reserved slug included
hasPermission_rowsOnly(userId, resource, action) ==
    IF userId \notin UserIds THEN FALSE
    ELSE \E rp \in rolePermissions :
            /\ rp.roleId = users[userId].roleId
            /\ \E p \in Permissions : /\ p.id = rp.permissionId
                                      /\ p.resource = resource
                                      /\ p.action = action

\* mutant: a row on the resource is enough, whatever its action
hasPermission_resourceOnly(userId, resource, action) ==
    IF userId \notin UserIds THEN FALSE
    ELSE IF Roles[users[userId].roleId].slug = "super-admin" THEN TRUE
    ELSE \E rp \in rolePermissions :
            /\ rp.roleId = users[userId].roleId
            /\ \E p \in Permissions : /\ p.id = rp.permissionId
                                      /\ p.resource = resource

\* user.role.permissions.some(rp => rp.permission matches), after the
\* super-admin shortcut
hasPermission(userId, resource, action) ==
    IF userId \notin UserIds THEN FALSE
    ELSE IF Roles[users[userId].roleId].slug = "super-admin" THEN TRUE
    ELSE \E rp \in rolePermissions :
            /\ rp.roleId = users[userId].roleId
            /\ \E p \in Permissions : /\ p.id = rp.permissionId
                                      /\ p.resource = resource
                                      /\ p.action = action

\* user.role.permissions.map(rp => rp.permission), for a user that exists
getUserPermissions(userId) ==
    {p \in Permissions :
        \E rp \in rolePermissions : /\ rp.roleId = users[userId].roleId
                                    /\ rp.permissionId = p.id}

requirePermission(userId, resource, action) ==
    /\ LET allowed == hasPermission(userId, resource, action)
       IN /\ permLast' = [userId |-> userId, resource |-> resource,
                          action |-> action, result |-> allowed]
          /\ IF allowed
                THEN Observe(Call("requirePermission", userId, NoToken, "", "",
                                  NoToken, NoToken))
                ELSE Observe(Failed("requirePermission", userId, NoToken,
                                    "ForbiddenError",
                                    "You don't have permission to " \o action
                                        \o " " \o resource))
    /\ UNCHANGED <<users, ledger, nextTokenId, now, rolePermissions, issued, killed,
                   env,
                   auditVars, hrVars>>

assignPermissionToRole(roleId, permissionId) ==
    /\ IF roleId \notin DOMAIN Roles
          THEN /\ Observe(Failed("assignPermissionToRole", 0, NoToken,
                                 "NotFoundError", "Role not found"))
               /\ rolePermissions' = rolePermissions
          ELSE IF \A p \in Permissions : p.id # permissionId
          THEN /\ Observe(Failed("assignPermissionToRole", 0, NoToken,
                                 "NotFoundError", "Permission not found"))
               /\ rolePermissions' = rolePermissions
          ELSE /\ rolePermissions' =
                     rolePermissions \cup
                         {[roleId |-> roleId, permissionId |-> permissionId]}
               /\ Observe(Call("assignPermissionToRole", 0, NoToken, "", "",
                               NoToken, NoToken))
    /\ UNCHANGED <<users, ledger, nextTokenId, now, issued, killed, permLast, env,
                   auditVars, hrVars>>

removePermissionFromRole(roleId, permissionId) ==
    /\ LET rolePermission == [roleId |-> roleId, permissionId |-> permissionId]
       IN IF rolePermission \notin rolePermissions
          THEN /\ Observe(Failed("removePermissionFromRole", 0, NoToken,
                                 "NotFoundError",
                                 "Permission not assigned to this role"))
               /\ rolePermissions' = rolePermissions
          ELSE /\ rolePermissions' = rolePermissions \ {rolePermission}
               /\ Observe(Call("removePermissionFromRole", 0, NoToken, "", "",
                               NoToken, NoToken))
    /\ UNCHANGED <<users, ledger, nextTokenId, now, issued, killed, permLast, env,
                   auditVars, hrVars>>

----------------------------------------------------------------------------
(* UserService.deleteUser *)

\* the RefreshToken rows that go with their owner
cascadeDelete(l, userId) == {r \in l : r.userId # userId}

deleteUser(userId, deletedById) ==
    /\ IF userId \notin UserIds
          THEN /\ Observe(Failed("deleteUser", userId, NoToken, "NotFoundError",
                                 "User not found"))
               /\ UNCHANGED <<users, ledger, auditLogs>>
          ELSE LET audit == log(AuditRow(deletedById, "DELETE", "user", userId))
               IN /\ users' = [u \in UserIds \ {userId} |-> users[u]]
                  /\ ledger' = cascadeDelete(ledger, userId)
                  /\ auditLogs' = audit.rows
                  /\ Observe(Call("deleteUser", userId, NoToken, audit.error, "",
                                  NoToken, NoToken))
    /\ UNCHANGED <<nextTokenId, now, rolePermissions, issued, killed, permLast, env,
                   auditDown, hrVars>>

----------------------------------------------------------------------------
(* The middlewares: authenticate and requirePermission *)

\* req.headers.authorization: absent, or a scheme and what follows it
NoHeader == [scheme |-> "none", token |-> NoToken]

\* mutant: a deactivated user is turned away
authenticateError_activeOnly(header) ==
    IF header.scheme # "Bearer"
       THEN [error |-> "UnauthorizedError", message |-> "No token provided"]
    ELSE IF ~verifyAccessToken(header.token, now)
       THEN [error |-> "UnauthorizedError",
             message |-> "Invalid or expired access token"]
    ELSE IF header.token.userId \notin UserIds
       THEN [error |-> "UnauthorizedError", message |-> "User not found"]
    ELSE IF ~users[header.token.userId].isActive
       THEN [error |-> "UnauthorizedError", message |-> "Account is deactivated"]
    ELSE [error |-> "", message |-> ""]

\* mutant: the error of the user lookup keeps its own status
authenticateError_notFound(header) ==
    IF header.scheme # "Bearer"
       THEN [error |-> "UnauthorizedError", message |-> "No token provided"]
    ELSE IF ~verifyAccessToken(header.token, now)
       THEN [error |-> "UnauthorizedError",
             message |-> "Invalid or expired access token"]
    ELSE IF header.token.userId \notin UserIds
       THEN [error |-> "NotFoundError", message |-> "User not found"]
    ELSE [error |-> "", message |-> ""]

\* the response authenticate ends the request with, or none: every failure,
\* the NotFoundError of getUserWithPermissions included, is caught and answered
\* by ApiResponseUtil.unauthorized
authenticateError(header) ==
    IF header.scheme # "Bearer"
       THEN [error |-> "UnauthorizedError", message |-> "No token provided"]
    ELSE IF ~verifyAccessToken(header.token, now)
       THEN [error |-> "UnauthorizedError",
             message |-> "Invalid or expired access token"]
    ELSE IF header.token.userId \notin UserIds
       THEN [error |-> "UnauthorizedError", message |-> "User not found"]
    ELSE [error |-> "", message |-> ""]

\* last.userId is req.userId; the call is Ok when next() was called
authenticate(header) ==
    /\ LET e == authenticateError(header)
       IN IF e.error # ""
          THEN Observe([Failed("authenticate", 0, header.token, e.error, e.message)
                           EXCEPT !.scheme = header.scheme])
          ELSE LET user == getUserWithPermissions(header.token.userId)
               IN Observe([Call("authenticate", user.id, header.token, "", e.message,
                                NoToken, NoToken)
                              EXCEPT !.scheme = header.scheme])
    /\ UNCHANGED <<users, ledger, nextTokenId, now, rolePermissions, issued, killed,
                   permLast, env,
                   auditVars, hrVars>>

\* mutant: a denied check is logged and the request goes on
requirePermissionMiddleware_warnOnly(reqUserId, resource, action) ==
    /\ IF reqUserId = 0
          THEN Observe([Failed("requirePermissionMiddleware", reqUserId, NoToken,
                               "UnauthorizedError", "Authentication required")
                           EXCEPT !.resource = resource, !.action = action])
          ELSE Observe([Call("requirePermissionMiddleware", reqUserId, NoToken,
                             "", "", NoToken, NoToken)
                           EXCEPT !.resource = resource, !.action = action])
    /\ UNCHANGED <<users, ledger, nextTokenId, now, rolePermissions, issued, killed,
                   permLast, env,
                   auditVars, hrVars>>

\* the middleware requirePermission(resource, action) on a request whose
\* req.userId is reqUserId, 0 when it is unset
requirePermissionMiddleware(reqUserId, resource, action) ==
    /\ IF reqUserId = 0
          THEN Observe([Failed("requirePermissionMiddleware", reqUserId, NoToken,
                               "UnauthorizedError", "Authentication required")
                           EXCEPT !.resource = resource, !.action = action])
          ELSE IF ~hasPermission(reqUserId, resource, action)
          THEN Observe([Failed("requirePermissionMiddleware", reqUserId, NoToken,
                               "ForbiddenError",
                               "You don't have permission to " \o action
                                   \o " " \o resource)
                           EXCEPT !.resource = resource, !.action = action])
          ELSE Observe([Call("requirePermissionMiddleware", reqUserId, NoToken,
                             "", "", NoToken, NoToken)
                           EXCEPT !.resource = resource, !.action = action])
    /\ UNCHANGED <<users, ledger, nextTokenId, now, rolePermissions, issued, killed,
                   permLast, env,
                   auditVars, hrVars>>

----------------------------------------------------------------------------
(* The permission specification *)

\* the principal of a check: a user row, or an id with no row
CheckUsers == UserIds \cup {0}

\* the role of an assignment: super-admin, employee, or an id with no row;
\* the hr-manager and manager roles keep their seeded rows
RoleInputs == {SuperAdminRole, EmployeeRole, 0}

\* the permission of an assignment: a seeded row's id, or an id with no row
PermissionInputs == Resource \X Action

RoleUpdates == {d \in UpdateData : "roleId" \in DOMAIN d}

NextPerm ==
    \/ \E u \in CheckUsers, r \in Resource, a \in Action : requirePermission(u, r, a)
    \/ \E r \in RoleInputs, p \in PermissionInputs : assignPermissionToRole(r, p)
    \/ \E r \in RoleInputs, p \in PermissionInputs : removePermissionFromRole(r, p)
    \/ \E u \in Callers, d \in RoleUpdates, by \in Admins : updateUser(u, d, by)

SpecPerm == Init /\ [][NextPerm]_vars

\* the permission middleware in place of the service call
NextPermGate ==
    \/ \E u \in CheckUsers, r \in Resource, a \in Action :
          requirePermissionMiddleware(u, r, a)
    \/ \E r \in RoleInputs, p \in PermissionInputs : assignPermissionToRole(r, p)
    \/ \E r \in RoleInputs, p \in PermissionInputs : removePermissionFromRole(r, p)
    \/ \E u \in Callers, d \in RoleUpdates, by \in Admins : updateUser(u, d, by)

SpecPermGate == Init /\ [][NextPermGate]_vars

----------------------------------------------------------------------------
(* The middleware specification *)

\* the access token minted in the same pair as a refresh token
AccessOf(refreshToken) ==
    generateAccessToken(refreshToken.userId, refreshToken.email, refreshToken.roleId,
                        refreshToken.iat[1], refreshToken.iat[2])

\* what a client can put after 'Bearer ': a token of either class it was
\* given, or a string of its own
BearerInputs == {AccessOf(t) : t \in issued} \cup issued \cup {ForgedToken}

Headers ==
    {NoHeader}
    \cup {[scheme |-> "Basic", token |-> ForgedToken]}
    \cup {[scheme |-> "Bearer", token |-> t] : t \in BearerInputs}

NextGate ==
    \/ \E e \in Emails, p \in Passwords : login(e, p)
    \/ \E h \in Headers : authenticate(h)
    \/ \E u \in Callers, by \in Admins : deleteUser(u, by)
    \/ Tick

SpecGate == Init /\ [][NextGate]_vars

----------------------------------------------------------------------------
(* The access specification: the gate on requests made after the session    *)
(* was ended or the account deactivated, all within one clock unit          *)

NextAccess ==
    \/ \E c \in RaceLogins : login(c[1], c[2])
    \/ \E h \in Headers : authenticate(h)
    \/ \E u \in Callers : \E t \in LogoutInputs(u) : logout(u, t)
    \/ \E u \in Callers, c \in Passwords, n \in Passwords : changePassword(u, c, n)
    \/ \E u \in Callers, d \in AuthUpdates, by \in Admins : updateUser(u, d, by)

SpecAccess == Init /\ [][NextAccess]_vars

----------------------------------------------------------------------------
(* The token-class specification: both classes of token presented to both   *)
(* verifiers                                                                *)

\* any environment that envSchema accepts
InitEnv ==
    /\ users = (1 :> SeedUser(1, AdminEmail, SuperAdminRole)) @@
               (2 :> SeedUser(2, EmployeeEmail, EmployeeRole))
    /\ ledger = {}
    /\ nextTokenId = 1
    /\ now = 0
    /\ rolePermissions = SeedRolePermissions
    /\ issued = {}
    /\ killed = {}
    /\ last = NoCall
    /\ permLast = NoCheck
    /\ env \in Environments
    /\ InitServices

NextEnv ==
    \/ \E e \in Emails, p \in Passwords : login(e, p)
    \/ \E h \in Headers : authenticate(h)
    \/ \E t \in BearerInputs : refreshAccessToken(t)
    \/ Tick

SpecEnv == InitEnv /\ [][NextEnv]_vars

----------------------------------------------------------------------------
(* NotificationService: the SSE registry and createNotification. The         *)
(* socket.io rooms are kept by the library and are not part of the state.    *)

\* what the auth core keeps, the user rows aside
coreVars == <<ledger, nextTokenId, now, rolePermissions, issued, killed, permLast, env>>

\* the responses after sseClient.write of the event to the client registered
\* for the user, if there is one
broadcastToUser(userId, event) ==
    IF userId \in DOMAIN sseClients /\ conns[sseClients[userId]].open
       THEN [conns EXCEPT ![sseClients[userId]].events = @ \cup {event}]
       ELSE conns

\* notification.create and the broadcast of the new row
createNotification(userId, type) ==
    LET notification == [id |-> Cardinality(notifications) + 1, userId |-> userId,
                         type |-> type]
    IN /\ notifications' = notifications \cup {notification}
       /\ conns' = broadcastToUser(userId, notification.id)

\* a notification created on its own
notify(userId, type) ==
    /\ Cardinality(notifications) < MaxEvents
    /\ createNotification(userId, type)
    /\ UNCHANGED <<users, coreVars, last, auditVars, calls, leaves, emailQueue,
                   sseClients>>

\* res is a response just opened; it takes the user's entry of the map
registerSSEClient(userId) ==
    /\ Cardinality(DOMAIN conns) < MaxConns
    /\ LET res == Cardinality(DOMAIN conns) + 1
       IN /\ conns' = conns @@ (res :> [userId |-> userId, open |-> TRUE, events |-> {}])
          /\ sseClients' = [u \in (DOMAIN sseClients) \cup {userId} |->
                               IF u = userId THEN res ELSE sseClients[u]]
    /\ UNCHANGED <<users, coreVars, last, auditVars, calls, leaves, notifications,
                   emailQueue>>

\* the 'close' listener of a response: sseClients.delete(userId)
onClose(res) ==
    /\ res \in DOMAIN conns
    /\ conns[res].open
    /\ conns' = [conns EXCEPT ![res].open = FALSE]
    /\ sseClients' = [u \in (DOMAIN sseClients) \ {conns[res].userId} |-> sseClients[u]]
    /\ UNCHANGED <<users, coreVars, last, auditVars, calls, leaves, notifications,
                   emailQueue>>

NotificationTypes == {"LEAVE_APPROVED", "LEAVE_REJECTED"}

NextSse ==
    \/ \E u \in UserIds : registerSSEClient(u)
    \/ \E res \in DOMAIN conns : onClose(res)
    \/ \E u \in UserIds, t \in NotificationTypes : notify(u, t)

SpecSse == Init /\ [][NextSse]_vars

----------------------------------------------------------------------------
(* LeaveService *)

\* leave.user.department?.manager?.email: seed.js gives no department a
\* manager
ManagerEmail(userId) == ""

\* a job added to the email queue
Job(name, to, status) ==
    [id |-> Cardinality(emailQueue) + 1, name |-> name, to |-> to, status |-> status]

createLeaveRequest(userId) ==
    /\ Cardinality(DOMAIN leaves) < MaxLeaves
    /\ LET id == Cardinality(DOMAIN leaves) + 1
           audit == log(AuditRow(userId, "CREATE", "leave", id))
       IN /\ leaves' = leaves @@
                (id :> [id |-> id, userId |-> userId, status |-> "PENDING",
                        approvedBy |-> Null, approvedAt |-> Null,
                        rejectedBy |-> Null, rejectedAt |-> Null])
          /\ emailQueue' =
                IF ManagerEmail(userId) # ""
                   THEN emailQueue \cup
                            {Job("leave-request-email", ManagerEmail(userId), "PENDING")}
                   ELSE emailQueue
          /\ auditLogs' = audit.rows
          /\ Observe([Call("createLeaveRequest", userId, NoToken, audit.error, "",
                           NoToken, NoToken) EXCEPT !.leaveId = id])
    /\ UNCHANGED <<users, coreVars, auditDown, calls, notifications, sseClients, conns>>

\* the check of approveLeave and rejectLeave on the row read: the error
\* thrown, or none
leaveError(leaveId) ==
    IF leaveId \notin DOMAIN leaves
       THEN [error |-> "NotFoundError", message |-> "Leave request not found"]
    ELSE IF leaves[leaveId].status # "PENDING"
       THEN [error |-> "ForbiddenError",
             message |-> "Leave request has already been processed"]
    ELSE [error |-> "", message |-> ""]

\* leave.update of approveLeave
approved(leaveId, approverId) ==
    [leaves EXCEPT ![leaveId].status = "APPROVED",
                   ![leaveId].approvedBy = approverId,
                   ![leaveId].approvedAt = now]

\* leave.update of rejectLeave
rejected(leaveId, rejecterId) ==
    [leaves EXCEPT ![leaveId].status = "REJECTED",
                   ![leaveId].rejectedBy = rejecterId,
                   ![leaveId].rejectedAt = now]

approveLeave(leaveId, approverId) ==
    /\ LET e == leaveError(leaveId)
       IN IF e.error # ""
          THEN /\ Observe([Failed("approveLeave", approverId, NoToken, e.error,
                                  e.message) EXCEPT !.leaveId = leaveId])
               /\ UNCHANGED <<leaves, notifications, conns, emailQueue, auditLogs>>
          ELSE LET leave == leaves[leaveId]
                   audit == log(AuditRow(approverId, "APPROVE", "leave", leaveId))
               IN /\ leaves' = approved(leaveId, approverId)
                  /\ createNotification(leave.userId, "LEAVE_APPROVED")
                  /\ emailQueue' = emailQueue \cup
                        {Job("leave-status-email", users[leave.userId].email, "APPROVED")}
                  /\ auditLogs' = audit.rows
                  /\ Observe([Call("approveLeave", approverId, NoToken, audit.error, "",
                                   NoToken, NoToken) EXCEPT !.leaveId = leaveId])
    /\ UNCHANGED <<users, coreVars, auditDown, calls, sseClients>>

rejectLeave(leaveId, rejecterId) ==
    /\ LET e == leaveError(leaveId)
       IN IF e.error # ""
          THEN /\ Observe([Failed("rejectLeave", rejecterId, NoToken, e.error,
                                  e.message) EXCEPT !.leaveId = leaveId])
               /\ UNCHANGED <<leaves, notifications, conns, emailQueue, auditLogs>>
          ELSE LET leave == leaves[leaveId]
                   audit == log(AuditRow(rejecterId, "REJECT", "leave", leaveId))
               IN /\ leaves' = rejected(leaveId, rejecterId)
                  /\ createNotification(leave.userId, "LEAVE_REJECTED")
                  /\ emailQueue' = emailQueue \cup
                        {Job("leave-status-email", users[leave.userId].email, "REJECTED")}
                  /\ auditLogs' = audit.rows
                  /\ Observe([Call("rejectLeave", rejecterId, NoToken, audit.error, "",
                                   NoToken, NoToken) EXCEPT !.leaveId = leaveId])
    /\ UNCHANGED <<users, coreVars, auditDown, calls, sseClients>>

(* approveLeave and rejectLeave, await by await: leave.findUnique and its     *)
(* check, then leave.update and what follows it                               *)

Decisions == {"approveLeave", "rejectLeave"}

\* leave.findUnique and the two checks of its result
leaveRead(p, op, leaveId, by) ==
    /\ Free(p)
    /\ LET e == leaveError(leaveId)
       IN calls' =
             IF e.error # ""
                THEN [Throw(p, op, NoToken, by, e.error, e.message)
                         EXCEPT ![p].leaveId = leaveId]
             ELSE [calls EXCEPT ![p] = [Idle EXCEPT !.op = op, !.pc = "update",
                                                    !.userId = by,
                                                    !.leaveId = leaveId]]
    /\ UNCHANGED <<users, coreVars, last, auditVars, leaves, notifications, emailQueue,
                   sseClients, conns>>

\* leave.update, createNotification, queueLeaveStatusEmail, AuditService.log
\* and the return
leaveUpdate(p) ==
    /\ calls[p].op \in Decisions
    /\ calls[p].pc = "update"
    /\ LET c == calls[p]
           leave == leaves[c.leaveId]
           approve == c.op = "approveLeave"
           audit == log(AuditRow(c.userId, IF approve THEN "APPROVE" ELSE "REJECT",
                                 "leave", c.leaveId))
       IN /\ leaves' = IF approve THEN approved(c.leaveId, c.userId)
                                  ELSE rejected(c.leaveId, c.userId)
          /\ createNotification(leave.userId,
                                IF approve THEN "LEAVE_APPROVED" ELSE "LEAVE_REJECTED")
          /\ emailQueue' = emailQueue \cup
                {Job("leave-status-email", users[leave.userId].email,
                     IF approve THEN "APPROVED" ELSE "REJECTED")}
          /\ auditLogs' = audit.rows
          /\ calls' = [calls EXCEPT ![p].pc = "done", ![p].error = audit.error]
    /\ UNCHANGED <<users, coreVars, last, auditDown, sseClients>>

\* the leave requests named by a decision: a row, or an id with no row
LeaveInputs == 1..MaxLeaves

NextLeave ==
    \/ \E u \in Callers : createLeaveRequest(u)
    \/ \E p \in Requests, op \in Decisions, l \in LeaveInputs, by \in Admins :
          leaveRead(p, op, l, by)
    \/ \E p \in Requests : leaveUpdate(p)

SpecLeave == Init /\ [][NextLeave]_vars

----------------------------------------------------------------------------
(* UserService.createUser and the audited operations *)

\* the ids of the rows seed.js creates
SeedUserIds == {1, 2}

\* data is the row of the request body: email, password and roleId
createUser(data, createdById) ==
    /\ IF UserByEmail(data.email) # {}
          THEN /\ Observe(Cred(Failed("createUser", 0, NoToken, "ConflictError",
                                      "User with this email already exists"),
                                data.email, data.password))
               /\ UNCHANGED <<users, auditLogs>>
          ELSE \E salt \in Salts :
                 LET id == Max(UserIds \cup SeedUserIds) + 1
                     audit == log(AuditRow(createdById, "CREATE", "user", id))
                 IN /\ users' = users @@
                        (id :> [id |-> id, email |-> data.email,
                                password |-> hashPassword(data.password, salt),
                                isActive |-> DefaultIsActive, roleId |-> data.roleId,
                                lastLoginAt |-> Null, passwordChangedAt |-> Null])
                    /\ auditLogs' = audit.rows
                    /\ Observe(Cred(Call("createUser", id, NoToken, audit.error, "",
                                         NoToken, NoToken), data.email, data.password))
    /\ UNCHANGED <<coreVars, auditDown, hrVars>>

\* the audit table is available throughout, or rejects every write
InitAudit ==
    /\ users = (1 :> SeedUser(1, AdminEmail, SuperAdminRole)) @@
               (2 :> SeedUser(2, EmployeeEmail, EmployeeRole))
    /\ ledger = {}
    /\ nextTokenId = 1
    /\ now = 0
    /\ rolePermissions = SeedRolePermissions
    /\ issued = {}
    /\ killed = {}
    /\ last = NoCall
    /\ permLast = NoCheck
    /\ env = SampleEnv
    /\ auditLogs = {}
    /\ auditDown \in BOOLEAN
    /\ calls = [p \in Requests |-> Idle]
    /\ leaves = <<>>
    /\ notifications = {}
    /\ emailQueue = {}
    /\ sseClients = <<>>
    /\ conns = <<>>

\* the rows an administrator creates: a new address, or one already taken
NewUsers == [email : {TestEmail, AdminEmail}, password : {TestPassword},
             roleId : {EmployeeRole}]

\* rows created after the seed are not deleted, so no id is given twice
NextAudit ==
    \/ \E d \in NewUsers, by \in Admins : createUser(d, by)
    \/ \E u \in Callers, d \in AuthUpdates, by \in Admins : updateUser(u, d, by)
    \/ \E u \in Callers \cap SeedUserIds, by \in Admins : deleteUser(u, by)
    \/ \E u \in Admins : createLeaveRequest(u)
    \/ \E l \in LeaveInputs, by \in Admins : approveLeave(l, by)
    \/ \E l \in LeaveInputs, by \in Admins : rejectLeave(l, by)

SpecAudit == InitAudit /\ [][NextAudit]_vars

----------------------------------------------------------------------------
(* Claims about sessions, checked under Spec *)

\* argon2 verification of password against a stored digest fails
DoesNotVerify(hash, password) == hash.kind # "argon2" \/ hash.plain # password

Unauthorized(c) == c.error = "UnauthorizedError" /\ statusCode(c.error) = 401

\* this step is a call of op: every handler observes itself in last and leaves
\* the clock alone, and the clock's tick leaves last alone
Called(op) == now' = now /\ last'.op = op

\* C1: a refresh token returned by login and presented while unexpired, with
\* the user active, is accepted by the next call; presenting the same raw
\* token again in the call right after a successful refresh is answered
\* Unauthorized.
C1_ReplayRejected ==
    /\ (/\ last.op = "refresh"
        /\ last.after = "login"
        /\ now < last.token.exp
        /\ users[last.token.userId].isActive)
       => (Ok(last) /\ last.refreshToken.cls = "refresh" /\ last.accessToken.cls = "access")
    /\ (last.op = "refresh" /\ last.after = "replay") => Unauthorized(last)

\* a replayed, still unexpired token was turned down by the ledger
C1_Witness ==
    /\ last.op = "refresh"
    /\ last.after = "replay"
    /\ last.token \in issued
    /\ now < last.token.exp
    /\ users[last.token.userId].isActive
    /\ last.error = "UnauthorizedError"
    /\ last.message = "Invalid refresh token"

\* C2: after a successful refresh the returned refresh token has a
\* non-revoked, non-expired ledger record, so refreshing with it succeeds.
C2_RotatedTokenAccepted ==
    (last.op = "refresh" /\ Ok(last) /\ now < last.refreshToken.exp)
        => isValidToken(ledger, last.refreshToken, now)

C4_ChangePasswordSucceeds ==
    last.op = "changePassword" =>
        IF Ok(last)
           THEN /\ users[last.userId].passwordChangedAt # Null
                /\ \A r \in ledger : r.userId = last.userId => r.isRevoked
           ELSE DoesNotVerify(users[last.userId].password, last.password)

\* C5: changePassword with a current password that does not verify fails and
\* changes nothing: the user rows and the ledger are unchanged, and every
\* refresh token accepted before the call is accepted after it.
C5_WrongCurrentChangesNothing ==
    [][(/\ Called("changePassword")
        /\ DoesNotVerify(users[last'.userId].password, last'.password))
            => /\ ~Ok(last')
               /\ statusCode(last'.error) = 400
               /\ users' = users
               /\ ledger' = ledger
               /\ \A t \in issued : isValidToken(ledger, t, now)
                                       => isValidToken(ledger', t, now')]_vars

\* a wrong current password was refused while the principal held a valid
\* refresh token
C5_Witness ==
    /\ last.op = "changePassword"
    /\ ~Ok(last)
    /\ DoesNotVerify(users[last.userId].password, last.password)
    /\ \E t \in issued : t.userId = last.userId /\ isValidToken(ledger, t, now)

UnknownEmail(email) == UserByEmail(email) = {}

\* C6: register with an email that has no account (the employee role being
\* seeded) succeeds and stores a row for that email; the login that follows
\* it with the same credentials succeeds, returns an access token and a
\* refresh token that verify, and adds a ledger record for that user holding
\* the hash of the refresh token, not the token.
C6_RegisterThenLogin ==
    [][/\ (/\ Called("register")
           /\ UnknownEmail(last'.email)
           /\ RoleBySlug("employee") # {})
              => /\ Ok(last')
                 /\ last'.userId \in (DOMAIN users') \ UserIds
                 /\ users'[last'.userId].email = last'.email
                 /\ ~DoesNotVerify(users'[last'.userId].password, last'.password)
       /\ (Called("login") /\ last'.after = "register")
              => /\ Ok(last')
                 /\ users[last'.userId].email = last'.email
                 /\ verifyAccessToken(last'.accessToken, now)
                 /\ verifyRefreshToken(last'.refreshToken, now)
                 /\ \E r \in ledger' \ ledger :
                        /\ r.userId = last'.userId
                        /\ ~r.isRevoked
                        /\ r.token # last'.refreshToken
                        /\ ~DoesNotVerify(r.token, last'.refreshToken)]_vars

\* the account registered for test@example.com logged in right after its
\* registration and holds a stored refresh token
C6_Witness ==
    /\ last.op = "login"
    /\ last.after = "register"
    /\ Ok(last)
    /\ last.email = TestEmail
    /\ last.userId \notin {1, 2}
    /\ last.accessToken.cls = "access"
    /\ \E r \in ledger : /\ r.userId = last.userId
                         /\ ~DoesNotVerify(r.token, last.refreshToken)

\* the email is known, the account active, and the password does not verify
WrongPassword(email, password) ==
    \E u \in UserByEmail(email) :
        users[u].isActive /\ DoesNotVerify(users[u].password, password)

C8_FailuresIndistinguishable ==
    \A e \in Emails, p \in Passwords :
        (last.op = "login" /\ ~Ok(last) /\ loginError(e, p).error # "")
            => /\ statusCode(last.error) = statusCode(loginError(e, p).error)
               /\ last.message = loginError(e, p).message

\* C13: register with an email that already has a row fails with Conflict
\* (409) and leaves the user table as it was; register with a new email adds
\* exactly one row, for that email and with the role whose slug is employee,
\* and leaves the other rows as they were; no two rows share an email.
C13_RegisterConflict ==
    [][/\ Called("register")
           => IF ~UnknownEmail(last'.email)
                 THEN /\ last'.error = "ConflictError"
                      /\ statusCode(last'.error) = 409
                      /\ users' = users
                 ELSE /\ Ok(last')
                      /\ Cardinality((DOMAIN users') \ UserIds) = 1
                      /\ \A u \in UserIds : users'[u] = users[u]
                      /\ \A u \in (DOMAIN users') \ UserIds :
                             /\ users'[u].email = last'.email
                             /\ Roles[users'[u].roleId].slug = "employee"
       /\ \A u, v \in DOMAIN users' :
              users'[u].email = users'[v].email => u = v]_vars

\* a second registration of test@example.com was refused and the address
\* still has the one row of the first
C13_Witness ==
    /\ last.op = "register"
    /\ last.error = "ConflictError"
    /\ last.email = TestEmail
    /\ Cardinality(UserByEmail(TestEmail)) = 1
    /\ \A u \in UserByEmail(TestEmail) : Roles[users[u].roleId].slug = "employee"

\* C17: when cleanupExpiredTokens is called right after a call of itself and
\* no record's expiry fell between the two calls, the second call deletes no
\* row, returns 0 and leaves the ledger as the first call left it.
C17_CleanupIdempotent ==
    [][(/\ Called("cleanup")
        /\ last.op = "cleanup"
        /\ \A r \in ledger : ~(last.at <= r.expiresAt /\ r.expiresAt < now))
            => /\ last'.count = 0
               /\ ledger' = ledger]_vars

\* cleanup ran twice in a row in the same clock unit, the first call having
\* deleted rows, and the second returned 0
C17_Witness ==
    /\ last.op = "cleanup"
    /\ last.after = "cleanup"
    /\ last.count = 0
    /\ Cardinality(ledger) < nextTokenId - 1
    /\ \A r \in ledger : r.expiresAt >= now

\* C18: a successful refreshAccessToken marks revoked every record of that
\* principal that was non-revoked before the call; a refresh that follows it
\* with another of the principal's tokens, neither the one presented nor the
\* one returned, is answered Unauthorized.
C18_RefreshRevokesAllDevices ==
    [][/\ (Called("refresh") /\ Ok(last'))
           => \A r \in ledger :
                 (r.userId = last'.userId /\ ~r.isRevoked)
                     => \E q \in ledger' : q.id = r.id /\ q.isRevoked /\ q.revokedAt = now
       /\ (Called("refresh") /\ last'.after = "device")
           => Unauthorized(last')]_vars

\* after one device refreshed, the unexpired token of another device of the
\* same active principal was turned down by the ledger
C18_Witness ==
    /\ last.op = "refresh"
    /\ last.after = "device"
    /\ now < last.token.exp
    /\ users[last.token.userId].isActive
    /\ last.error = "UnauthorizedError"
    /\ last.message = "Invalid refresh token"
    /\ Cardinality({r \in ledger : r.userId = last.token.userId /\ r.isRevoked}) >= 3

\* a record owned by the principal the token names is non-revoked, expires
\* strictly after now and stores the hash of exactly this token
LedgerVouches(token) ==
    \E r \in ledger : /\ r.userId = token.userId
                       /\ ~r.isRevoked
                       /\ r.expiresAt > now
                       /\ ~DoesNotVerify(r.token, token)

\* C19 as stated: refreshAccessToken accepts a correctly signed, unexpired
\* token iff a record vouches for it, and answers Unauthorized otherwise.
C19_LedgerRule ==
    [][(Called("refresh") /\ verifyRefreshToken(last'.token, now))
        => /\ Ok(last') <=> LedgerVouches(last'.token)
           /\ ~Ok(last') => Unauthorized(last')]_vars

\* C19, amended: for a token that names an existing, active principal,
\* refreshAccessToken accepts a correctly signed, unexpired token iff a record
\* vouches for it; in every other case it answers Unauthorized.
C19_LedgerRuleForActivePrincipal ==
    [][(Called("refresh") /\ verifyRefreshToken(last'.token, now))
        => /\ (last'.token.userId \in UserIds /\ users[last'.token.userId].isActive)
                 => (Ok(last') <=> LedgerVouches(last'.token))
           /\ Ok(last') => LedgerVouches(last'.token)
           /\ ~Ok(last') => Unauthorized(last')]_vars

\* a correctly signed, unexpired token of an active principal was turned
\* down because its only record had been revoked
C19_Witness ==
    /\ last.op = "refresh"
    /\ last.after = "other"
    /\ verifyRefreshToken(last.token, now)
    /\ last.token.userId \in UserIds
    /\ users[last.token.userId].isActive
    /\ last.error = "UnauthorizedError"
    /\ last.message = "Invalid refresh token"
    /\ \E r \in ledger : r.userId = last.token.userId
                          /\ ~DoesNotVerify(r.token, last.token)
    /\ \A r \in ledger : ~DoesNotVerify(r.token, last.token) => r.isRevoked

\* the non-revoked records of the principal that store the hash of the token
Matching(userId, token) ==
    {r \in ledger : r.userId = userId /\ ~r.isRevoked /\ ~DoesNotVerify(r.token, token)}

\* C20: logout with a token that matches a non-revoked record of the
\* principal marks exactly one such record revoked, stamps its revokedAt and
\* leaves every other record as it was, so every other token that a record
\* vouched for is still vouched for; logout without a token marks every
\* non-revoked record of the principal revoked and leaves the records of
\* other principals as they were.
C20_LogoutFrame ==
    [][Called("logout")
        => /\ (last'.token # NoToken /\ Matching(last'.userId, last'.token) # {})
                 => /\ \E r \in Matching(last'.userId, last'.token) :
                          ledger' = (ledger \ {r}) \cup
                                       {[r EXCEPT !.isRevoked = TRUE, !.revokedAt = now]}
                    /\ \A t \in issued :
                          (t # last'.token /\ LedgerVouches(t)) => LedgerVouches(t)'
           /\ last'.token = NoToken
                 => /\ \A r \in ledger :
                          r.userId = last'.userId
                              => \E q \in ledger' : q.id = r.id /\ q.isRevoked
                    /\ \A r \in ledger : r.userId # last'.userId => r \in ledger'
           /\ Ok(last')
           /\ users' = users]_vars

\* the principal logged out one token, whose record is now revoked, and
\* holds another token that a record still vouches for
C20_Witness ==
    /\ last.op = "logout"
    /\ last.token # NoToken
    /\ \E r \in ledger : /\ r.userId = last.userId
                          /\ r.isRevoked
                          /\ r.revokedAt = now
                          /\ ~DoesNotVerify(r.token, last.token)
    /\ \E t \in issued : t # last.token /\ t.userId = last.userId /\ LedgerVouches(t)

\* refreshAccessToken would accept the token: it verifies, a ledger record
\* vouches for it and its user exists and is active
RefreshAccepts(token) ==
    /\ verifyRefreshToken(token, now)
    /\ isValidToken(ledger, token, now)
    /\ token.userId \in UserIds
    /\ users[token.userId].isActive

\* C15: after any successful operation that replaces a user's stored
\* password hash, no refresh token issued to that user before it is accepted
\* by refreshAccessToken.
C15_PasswordChangeEndsSessions ==
    [][\A u \in UserIds \cap DOMAIN users' :
          users'[u].password # users[u].password
              => \A t \in issued : t.userId = u => ~RefreshAccepts(t)']_vars

----------------------------------------------------------------------------
(* Claims about permissions, checked under SpecPerm *)

SuperAdmin(userId) == Roles[users[userId].roleId].slug = "super-admin"

\* the role has a RolePermission row for the permission resource:action
HasRow(roleId, resource, action) ==
    [roleId |-> roleId, permissionId |-> <<resource, action>>] \in rolePermissions

\* C9: for every principal whose role slug is super-admin, hasPermission is
\* true for every pair of Resource x Action, whatever Permission rows were
\* seeded and whatever RolePermission rows the role has; a check just made
\* for such a principal passed.
C9_SuperAdminAllowsAll ==
    /\ \A u \in UserIds :
          SuperAdmin(u) => \A r \in Resource, a \in Action : hasPermission(u, r, a)
    /\ (/\ last.op = "requirePermission"
        /\ permLast.userId \in UserIds
        /\ SuperAdmin(permLast.userId))
          => (permLast.result /\ Ok(last))

\* a super-admin passed the check of payroll:approve, a pair with no
\* Permission row, after the role had lost all its RolePermission rows
C9_Witness ==
    /\ last.op = "requirePermission"
    /\ permLast.userId \in UserIds
    /\ SuperAdmin(permLast.userId)
    /\ permLast.resource = "payroll"
    /\ permLast.action = "approve"
    /\ permLast.result
    /\ \A p \in Permissions : ~(p.resource = "payroll" /\ p.action = "approve")
    /\ \A rp \in rolePermissions : rp.roleId # users[permLast.userId].roleId

\* C10: for a principal whose role is not super-admin, a check of (r, a)
\* passes iff the principal's role has the RolePermission row of (r, a);
\* an assignment or removal that touches no row of that role and pair leaves
\* the result for (r, a) as it was; a reassignment from a role lacking (r, a)
\* to a role holding it turns the result from false to true.
C10_ExactPairDecides ==
    [][/\ (/\ Called("requirePermission")
           /\ permLast'.userId \in UserIds
           /\ ~SuperAdmin(permLast'.userId))
              => (permLast'.result <=>
                     HasRow(users[permLast'.userId].roleId,
                            permLast'.resource, permLast'.action))
       /\ (Called("assignPermissionToRole") \/ Called("removePermissionFromRole"))
              => \A u \in UserIds, r \in Resource, a \in Action :
                    (/\ ~SuperAdmin(u)
                     /\ \A rp \in (rolePermissions' \ rolePermissions)
                                     \cup (rolePermissions \ rolePermissions') :
                            ~(rp.roleId = users[u].roleId
                              /\ rp.permissionId = <<r, a>>))
                        => (hasPermission(u, r, a)' <=> hasPermission(u, r, a))
       /\ Called("updateUser")
              => \A u \in UserIds, r \in Resource, a \in Action :
                    (/\ ~SuperAdmin(u)
                     /\ Roles[users'[u].roleId].slug # "super-admin"
                     /\ ~HasRow(users[u].roleId, r, a)
                     /\ HasRow(users'[u].roleId, r, a))
                        => (~hasPermission(u, r, a) /\ hasPermission(u, r, a)')]_vars

\* the employee failed the check of payroll:read, was then reassigned to
\* hr-manager, and the same check now passes
C10_Witness ==
    /\ last.op = "updateUser"
    /\ Ok(last)
    /\ permLast = [userId |-> last.userId, resource |-> "payroll",
                   action |-> "read", result |-> FALSE]
    /\ users[last.userId].roleId = HrManagerRole
    /\ HasRow(HrManagerRole, "payroll", "read")
    /\ hasPermission(last.userId, "payroll", "read")

\* C11: for every existing principal and every pair of Resource x Action,
\* hasPermission is true iff the pair is among the permissions returned by
\* getUserPermissions for that principal.
C11_CheckAgreesWithResolve ==
    \A u \in UserIds, r \in Resource, a \in Action :
        hasPermission(u, r, a) <=>
            \E p \in getUserPermissions(u) : p.resource = r /\ p.action = a

----------------------------------------------------------------------------
(* Claims about the middlewares, checked under SpecGate and SpecPermGate *)

\* C12: authenticate answers 401, attaches nothing and does not call the
\* handler when the Authorization header is missing or not a Bearer header,
\* when its token fails access-token verification, or when the token names a
\* user that has no row; the handler is called only once the token verified
\* and the user it names was loaded and attached as req.userId. The
\* middleware writes nothing.
C12_AccessGate ==
    [][Called("authenticate")
        => /\ (\/ last'.scheme # "Bearer"
               \/ ~verifyAccessToken(last'.token, now)
               \/ last'.token.userId \notin UserIds)
                  => /\ statusCode(last'.error) = 401
                     /\ ~Ok(last')
                     /\ last'.userId = 0
           /\ Ok(last')
                  => /\ last'.scheme = "Bearer"
                     /\ verifyAccessToken(last'.token, now)
                     /\ last'.userId \in UserIds
                     /\ last'.userId = last'.token.userId
           /\ UNCHANGED <<users, ledger, rolePermissions>>]_vars

\* an access token that still verifies was turned away because the user it
\* names had been deleted
C12_Witness ==
    /\ last.op = "authenticate"
    /\ last.scheme = "Bearer"
    /\ \E t \in issued : last.token = AccessOf(t)
    /\ verifyAccessToken(last.token, now)
    /\ last.token.userId \notin UserIds
    /\ Unauthorized(last)
    /\ last.message = "User not found"

\* C16: requirePermission(resource, action) on a request of an existing
\* principal calls the handler iff the principal's role is super-admin or
\* has the row of the pair, and then changes nothing; otherwise it answers
\* 403 with the message naming the action and the resource and does not call
\* the handler; on a request without req.userId it answers 401.
C16_PermissionGate ==
    [][Called("requirePermissionMiddleware")
        => /\ last'.userId = 0
                  => (Unauthorized(last') /\ ~Ok(last'))
           /\ last'.userId \in UserIds
                  => /\ Ok(last') <=>
                            \/ SuperAdmin(last'.userId)
                            \/ HasRow(users[last'.userId].roleId,
                                      last'.resource, last'.action)
                     /\ ~Ok(last')
                            => /\ statusCode(last'.error) = 403
                               /\ last'.message =
                                      "You don't have permission to "
                                          \o last'.action \o " " \o last'.resource
           /\ UNCHANGED <<users, ledger, nextTokenId, rolePermissions, issued,
                          permLast, env>>]_vars

\* a principal reassigned to manager, whose role has no row for
\* payroll:read, was answered 403
C16_Witness ==
    /\ last.op = "requirePermissionMiddleware"
    /\ last.userId \in UserIds
    /\ users[last.userId].roleId = ManagerRole
    /\ last.resource = "payroll"
    /\ last.action = "read"
    /\ ~HasRow(users[last.userId].roleId, "payroll", "read")
    /\ last.error = "ForbiddenError"
    /\ last.message = "You don't have permission to read payroll"

\* C28: authenticate calls the handler iff the header is a Bearer header
\* whose token passes access-token verification and names a user that has a
\* row; neither the ledger nor the active flag enters the decision, so an
\* unexpired access token is still accepted after a logout or after the
\* deactivation of its user.
C28_GateIgnoresLedgerAndActive ==
    [][Called("authenticate")
        => /\ Ok(last') <=> /\ last'.scheme = "Bearer"
                            /\ verifyAccessToken(last'.token, now)
                            /\ last'.token.userId \in UserIds
           /\ Ok(last') => last'.userId = last'.token.userId]_vars

\* the access token of a session was accepted after its user had logged out
\* of every session and had been deactivated
C28_Witness ==
    /\ last.op = "authenticate"
    /\ Ok(last)
    /\ \E t \in issued : last.token = AccessOf(t)
    /\ ~users[last.userId].isActive
    /\ \E r \in ledger : r.userId = last.userId
    /\ \A r \in ledger : r.userId = last.userId => r.isRevoked

----------------------------------------------------------------------------
(* Claims about the token classes, checked under SpecEnv *)

\* the step presents a token minted as an access token to refreshAccessToken
AccessAsRefresh == Called("refresh") /\ last'.token.cls = "access"

\* the step presents a token minted as a refresh token to authenticate
RefreshAsBearer ==
    Called("authenticate") /\ last'.scheme = "Bearer" /\ last'.token.cls = "refresh"

----------------------------------------------------------------------------
(* Claims about the ledger's frame, checked under Spec *)

\* C21: a refreshAccessToken that fails answers Unauthorized and has no
\* effect on the ledger: no record is created, none is revoked or deleted,
\* and every token a record vouched for, or that a refresh would have
\* accepted, before the failed call is still so after it.
C21_FailedRefreshNoEffect ==
    [][(Called("refresh") /\ ~Ok(last'))
        => /\ Unauthorized(last')
           /\ ledger' = ledger
           /\ nextTokenId' = nextTokenId
           /\ \A t \in issued : /\ LedgerVouches(t) => LedgerVouches(t)'
                                /\ RefreshAccepts(t) => RefreshAccepts(t)']_vars

\* a token whose record had been revoked was turned down while another
\* token of the same principal is still accepted
C21_Witness ==
    /\ last.op = "refresh"
    /\ last.error = "UnauthorizedError"
    /\ last.message = "Invalid refresh token"
    /\ last.token \in issued
    /\ \E t \in issued : /\ t # last.token
                         /\ t.userId = last.token.userId
                         /\ RefreshAccepts(t)

\* C24: cleanupExpiredTokens deletes exactly the records whose expiresAt is
\* before now, revoked or not, and no other; it changes the outcome of no
\* later call: every token is accepted by refreshAccessToken after the sweep
\* iff it was before it, every login passes or fails its checks as before,
\* and the user rows are untouched.
C24_CleanupExact ==
    [][Called("cleanup")
        => /\ ledger' = {r \in ledger : ~(r.expiresAt < now)}
           /\ last'.count = Cardinality(ledger \ ledger')
           /\ \A t \in issued \cup {ForgedToken} :
                  RefreshAccepts(t) <=> RefreshAccepts(t)'
           /\ \A e \in Emails, p \in Passwords : loginError(e, p) = loginError(e, p)'
           /\ users' = users]_vars

\* a sweep deleted two records, that of a token revoked by a logout among
\* them, and kept the record that expires at this very instant
C24_Witness ==
    /\ last.op = "cleanup"
    /\ last.count >= 2
    /\ \E r \in ledger : r.expiresAt = now /\ ~r.isRevoked
    /\ \E t \in killed : \A r \in ledger : DoesNotVerify(r.token, t)

\* the records of the token have all been revoked: refreshAccessToken turns
\* the token down because of a revocation
RejectedForRevocation(token) ==
    /\ \E r \in ledger : /\ r.userId = token.userId
                          /\ r.isRevoked
                          /\ ~DoesNotVerify(r.token, token)
    /\ ~LedgerVouches(token)

\* a revoked record stays as it is, or is deleted by the sweep once expired
RevokedRecordsStay ==
    \A r \in ledger :
        r.isRevoked
            => /\ \A q \in ledger' : q.id = r.id => q = r
               /\ (\A q \in ledger' : q.id # r.id)
                     => (Called("cleanup") /\ r.expiresAt < now)

\* the step signs the very string of the token again and stores a new record
\* for it
SignedAgain(token) ==
    /\ nextTokenId' = nextTokenId + 1
    /\ last'.refreshToken = token

Principal(c) == IF c.op = "refresh" THEN c.token.userId ELSE c.userId

\* C27: login, refreshAccessToken, logout and changePassword executed for a
\* principal create, revoke and delete no record owned by another principal
\* and leave the other user rows as they were, so every refresh token of
\* another principal is accepted after the call iff it was before it.
C27_PrincipalIsolation ==
    [][(Called("login") \/ Called("refresh") \/ Called("logout")
            \/ Called("changePassword"))
        => LET a == Principal(last')
           IN /\ \A r \in ledger \cup ledger' :
                     r.userId # a => (r \in ledger /\ r \in ledger')
              /\ \A u \in UserIds : u # a => (u \in DOMAIN users' /\ users'[u] = users[u])
              /\ \A t \in issued :
                     t.userId # a => (RefreshAccepts(t) <=> RefreshAccepts(t)')]_vars

\* the employee logged out of every session, which revoked a record of
\* theirs, and a token of the administrator is still accepted
C27_Witness ==
    /\ last.op = "logout"
    /\ last.token = NoToken
    /\ \E r \in ledger : /\ r.userId = last.userId
                          /\ r.isRevoked
                          /\ r.revokedAt = now
    /\ \E t \in issued : t.userId # last.userId /\ RefreshAccepts(t)

----------------------------------------------------------------------------
(* Claims about overlapping refresh requests, checked under SpecRace *)

\* request p has returned a token pair
Returned(p) == calls[p].op = "refresh" /\ calls[p].pc = "done" /\ Ok(calls[p])

\* C22: refresh rotation is not atomic. Once a request has read the ledger
\* and the user, nothing written since makes it fail: it creates its own
\* record and returns its own pair, also when another request has revoked
\* the presented token in between; so two requests that present the same
\* valid token and both read before either revokes both succeed.
C22_RotationNotAtomic ==
    [][\A p \in Requests :
          /\ (calls[p].pc = "create" /\ calls'[p] # calls[p])
                => /\ calls'[p].pc = "revoke"
                   /\ \E r \in ledger' \ ledger :
                          /\ r.userId = calls[p].userId
                          /\ ~DoesNotVerify(r.token, calls'[p].refreshToken)
          /\ (calls[p].pc = "revoke" /\ calls'[p] # calls[p])
                => /\ Returned(p)'
                   /\ calls'[p].refreshToken \in issued']_vars

\* two requests presented the same token and both returned a pair, each
\* with a record of its own
C22_Witness ==
    /\ Returned(1)
    /\ Returned(2)
    /\ calls[1].token = calls[2].token
    /\ calls[1].token \in issued
    /\ Cardinality({r \in ledger : r.userId = calls[1].userId}) = 3

\* C23: when two overlapping requests with the same token have both
\* returned, each of the two refresh tokens returned has a non-revoked
\* record and would be accepted by refreshAccessToken.
C23_BothSessionsValid ==
    \A p, q \in Requests :
        (p # q /\ Returned(p) /\ Returned(q) /\ calls[p].token = calls[q].token)
            => /\ RefreshAccepts(calls[p].refreshToken)
               /\ RefreshAccepts(calls[q].refreshToken)

----------------------------------------------------------------------------
(* Claims about audit logging, checked under SpecAudit *)

\* C25: while the audit-log write fails, AuditService.log raises nothing and
\* writes no row, and createUser, updateUser, deleteUser, createLeaveRequest,
\* approveLeave and rejectLeave, called with arguments their own checks
\* accept, still apply their state change and return normally.
C25_AuditBestEffort ==
    [][auditDown
        => /\ (Called("createUser") /\ UnknownEmail(last'.email))
                 => /\ Ok(last')
                    /\ last'.userId \in (DOMAIN users') \ UserIds
                    /\ users'[last'.userId].email = last'.email
           /\ (Called("updateUser") /\ last'.userId \in UserIds)
                 => /\ Ok(last')
                    /\ \A f \in DOMAIN last'.data :
                           users'[last'.userId][f] = last'.data[f]
           /\ (Called("deleteUser") /\ last'.userId \in UserIds)
                 => /\ Ok(last')
                    /\ last'.userId \notin DOMAIN users'
           /\ Called("createLeaveRequest")
                 => /\ Ok(last')
                    /\ last'.leaveId \in (DOMAIN leaves') \ DOMAIN leaves
                    /\ leaves'[last'.leaveId].status = "PENDING"
           /\ (Called("approveLeave") /\ leaveError(last'.leaveId).error = "")
                 => /\ Ok(last')
                    /\ leaves'[last'.leaveId].status = "APPROVED"
                    /\ leaves'[last'.leaveId].approvedBy = last'.userId
           /\ (Called("rejectLeave") /\ leaveError(last'.leaveId).error = "")
                 => /\ Ok(last')
                    /\ leaves'[last'.leaveId].status = "REJECTED"
                    /\ leaves'[last'.leaveId].rejectedBy = last'.userId
           /\ auditLogs' = auditLogs]_vars

\* with the audit table rejecting every write, a user was created, the
\* seeded employee deleted and a leave approved, and nothing was logged
C25_Witness ==
    /\ auditDown
    /\ last.op = "approveLeave"
    /\ Ok(last)
    /\ leaves[last.leaveId].status = "APPROVED"
    /\ notifications # {}
    /\ 3 \in UserIds
    /\ 2 \notin UserIds
    /\ auditLogs = {}

----------------------------------------------------------------------------
(* Claims about leave decisions, checked under SpecLeave *)

\* request p has decided the leave: its update was written and it returned
Decided(p, op, leaveId) ==
    /\ calls[p].op = op
    /\ calls[p].pc = "done"
    /\ calls[p].leaveId = leaveId
    /\ Ok(calls[p])

\* C29: a decision is written only on a leave that is PENDING at the time of
\* the write, a leave that is no longer PENDING is left as it is, of the
\* approveLeave and rejectLeave requests made on a leave at most one
\* succeeds, and no leave carries both the approval and the rejection stamps.
C29_DecisionsExclusive ==
    /\ \A l \in DOMAIN leaves :
          ~(leaves[l].approvedBy # Null /\ leaves[l].rejectedBy # Null)
    /\ \A p, q \in Requests, l \in DOMAIN leaves :
          ~(Decided(p, "approveLeave", l) /\ Decided(q, "rejectLeave", l))

----------------------------------------------------------------------------
(* Claims about the SSE registry, checked under SpecSse *)

\* the user has a response that is still open
Connected(userId) == \E c \in DOMAIN conns : conns[c].userId = userId /\ conns[c].open

\* C30: every user with an open SSE response registered through
\* registerSSEClient is mapped in sseClients to a response of theirs that is
\* still open, so that broadcastToUser reaches them.
C30_RegistryTracksOpenConnections ==
    \A u \in UserIds :
        Connected(u)
            => /\ u \in DOMAIN sseClients
               /\ conns[sseClients[u]].open
               /\ conns[sseClients[u]].userId = u

====
